---- MODULE Spec2Model ----
(***************************************************************************)
(* Model of src/digital.rs: the OutputPin / StatefulOutputPin /            *)
(* ToggleableOutputPin capabilities, the software toggle                   *)
(* (toggleable::toggle), the virtual pin MyPin of the toggleable doc test, *)
(* and the caching wrapper CachedOutputPin<P>, instantiated at P = MyPin.  *)
(*                                                                         *)
(* Two specifications:                                                     *)
(*   Spec      - single-owner use (what `&mut self` enforces): every call  *)
(*               is one atomic action; a log records each call with the    *)
(*               program state before and after it.                        *)
(*   SpecSteps - the statements of set_high / set_low / toggle executed    *)
(*               one at a time by two execution contexts on one wrapper,   *)
(*               with no mutual exclusion.                                 *)
(***************************************************************************)
EXTENDS Naturals, Sequences, FiniteSets

VARIABLES
    pin,      \* the caller's binding of the inner pin: <<>> when moved into a
              \* wrapper, else <<p>> with p a MyPin
    cached,   \* the caller's binding of the wrapper: <<>> when there is none,
              \* else <<w>> with w a CachedOutputPin { state, pin }
    log,      \* Spec: the calls made so far, each with its pre and post state
    ctx,      \* SpecSteps: per execution context, the call it is executing
    lastFwd,  \* SpecSteps: context whose call last reached the inner pin (0: none)
    lastRec   \* SpecSteps: context whose call last wrote the cache (0: none)

vars == <<pin, cached, log, ctx, lastFwd, lastRec>>

\* Longest call sequence explored by Spec.
MaxOps == 5
\* Number of calls the two contexts of SpecSteps may start in total.
MaxCalls == 3

\* Option<T> as a sequence of length at most one.
None == <<>>
Some(x) == <<x>>

----------------------------------------------------------------------------
(* MyPin: the software pin of the doc test.  `calls` is the record of the  *)
(* OutputPin calls the pin has received; `state` is MyPin.state.           *)

MyPin(s) == [state |-> s, calls |-> <<>>]

MyPin_set_low(self) ==
    [state |-> FALSE, calls |-> Append(self.calls, "set_low")]

MyPin_set_high(self) ==
    [state |-> TRUE, calls |-> Append(self.calls, "set_high")]

MyPin_is_set_low(self) == ~self.state

MyPin_is_set_high(self) == self.state

----------------------------------------------------------------------------
(* toggleable: the software toggle, generic in the pin type.               *)

\* The operands are self.is_set_low(), and self after self.set_high() and
\* after self.set_low(), of the type the toggle is used at.
toggle(self_is_set_low, self_set_high, self_set_low) ==
    IF self_is_set_low THEN self_set_high ELSE self_set_low

MyPin_toggle(self) ==
    toggle(MyPin_is_set_low(self), MyPin_set_high(self), MyPin_set_low(self))

----------------------------------------------------------------------------
(* CachedOutputPin<MyPin>.                                                 *)

\* Faulty variant of new: drives the pin to the initial level.
new_applying(p, state) ==
    [pin |-> IF state THEN MyPin_set_high(p) ELSE MyPin_set_low(p),
     state |-> state]

new(p, state) == [pin |-> p, state |-> state]

\* Faulty variant of into_inner: releases the pin driven low.
into_inner_resetting(self) == MyPin_set_low(self.pin)

into_inner(self) == self.pin

\* Faulty variants of the statements of set_high and set_low: a forward
\* skipped when the cache already holds the level, a cache write pasted
\* from the other method, a forward pasted from the other method, a cache
\* write left out.
set_high_forward_lazy(self) ==
    IF self.state THEN self ELSE [self EXCEPT !.pin = MyPin_set_high(@)]
set_high_record_pasted(self) == [self EXCEPT !.state = FALSE]
set_low_forward_pasted(self) == [self EXCEPT !.pin = MyPin_set_high(@)]
set_low_record_stale(self) == self

\* The two statements of set_high, and of set_low.
set_high_forward(self) == [self EXCEPT !.pin = MyPin_set_high(@)]
set_high_record(self) == [self EXCEPT !.state = TRUE]
set_low_forward(self) == [self EXCEPT !.pin = MyPin_set_low(@)]
set_low_record(self) == [self EXCEPT !.state = FALSE]

set_high(self) == set_high_record(set_high_forward(self))

set_low(self) == set_low_record(set_low_forward(self))

\* Faulty variant of is_set_low: the negation left out.
is_set_low_same(self) == self.state

is_set_low(self) == ~self.state

is_set_high(self) == self.state

\* Faulty variants of the toggle of CachedOutputPin: branching on
\* is_set_high, and flipping the cache without a set call.
Cached_toggle_inverted(self) ==
    toggle(is_set_high(self), set_high(self), set_low(self))
Cached_toggle_cache_only(self) == [self EXCEPT !.state = ~@]

Cached_toggle(self) == toggle(is_set_low(self), set_high(self), set_low(self))

----------------------------------------------------------------------------
(* Spec: whole calls, one at a time.                                       *)

Ctxs == {1, 2}
Idle == [pc |-> "idle", op |-> "none", set |-> "none",
         reads |-> <<>>, fwd |-> <<>>, recs |-> 0, pre |-> <<>>]

Snap(p, c) == [pin |-> p, cached |-> c]

\* The call (obj, op) with argument arg returned ret.
Logged(obj, op, arg, ret) ==
    log' = Append(log, [obj |-> obj, op |-> op, arg |-> arg, ret |-> ret,
                        pre |-> Snap(pin, cached),
                        post |-> Snap(pin', cached')])

Init ==
    /\ pin \in {Some(MyPin(s)) : s \in BOOLEAN}
    /\ cached = None
    /\ log = <<>>
    /\ ctx = [c \in Ctxs |-> Idle]
    /\ lastFwd = 0
    /\ lastRec = 0

CanCall == Len(log) < MaxOps
Owned == pin # None
Wrapped == cached # None

\* let w = CachedOutputPin::new(pin, state);
New(state) ==
    /\ CanCall /\ Owned
    /\ cached' = Some(new(pin[1], state))
    /\ pin' = None
    /\ Logged("CachedOutputPin", "new", Some(state), None)
    /\ UNCHANGED <<ctx, lastFwd, lastRec>>

\* let pin = w.into_inner();
IntoInner ==
    /\ CanCall /\ Wrapped
    /\ pin' = Some(into_inner(cached[1]))
    /\ cached' = None
    /\ Logged("CachedOutputPin", "into_inner", None, None)
    /\ UNCHANGED <<ctx, lastFwd, lastRec>>

SetHigh ==
    /\ CanCall /\ Wrapped
    /\ cached' = Some(set_high(cached[1]))
    /\ pin' = pin
    /\ Logged("CachedOutputPin", "set_high", None, None)
    /\ UNCHANGED <<ctx, lastFwd, lastRec>>

SetLow ==
    /\ CanCall /\ Wrapped
    /\ cached' = Some(set_low(cached[1]))
    /\ pin' = pin
    /\ Logged("CachedOutputPin", "set_low", None, None)
    /\ UNCHANGED <<ctx, lastFwd, lastRec>>

Toggle ==
    /\ CanCall /\ Wrapped
    /\ cached' = Some(Cached_toggle(cached[1]))
    /\ pin' = pin
    /\ Logged("CachedOutputPin", "toggle", None, None)
    /\ UNCHANGED <<ctx, lastFwd, lastRec>>

\* Faulty variant of IsSetHigh: the read drives the cached level to the pin.
IsSetHigh_refreshing ==
    /\ CanCall /\ Wrapped
    /\ cached' = Some(IF cached[1].state THEN set_high_forward(cached[1])
                      ELSE set_low_forward(cached[1]))
    /\ pin' = pin
    /\ Logged("CachedOutputPin", "is_set_high", None, Some(is_set_high(cached[1])))
    /\ UNCHANGED <<ctx, lastFwd, lastRec>>

IsSetHigh ==
    /\ CanCall /\ Wrapped
    /\ UNCHANGED <<pin, cached>>
    /\ Logged("CachedOutputPin", "is_set_high", None, Some(is_set_high(cached[1])))
    /\ UNCHANGED <<ctx, lastFwd, lastRec>>

IsSetLow ==
    /\ CanCall /\ Wrapped
    /\ UNCHANGED <<pin, cached>>
    /\ Logged("CachedOutputPin", "is_set_low", None, Some(is_set_low(cached[1])))
    /\ UNCHANGED <<ctx, lastFwd, lastRec>>

\* The same calls made directly on a MyPin the caller owns.
MyPinSetHigh ==
    /\ CanCall /\ Owned
    /\ pin' = Some(MyPin_set_high(pin[1]))
    /\ cached' = cached
    /\ Logged("MyPin", "set_high", None, None)
    /\ UNCHANGED <<ctx, lastFwd, lastRec>>

MyPinSetLow ==
    /\ CanCall /\ Owned
    /\ pin' = Some(MyPin_set_low(pin[1]))
    /\ cached' = cached
    /\ Logged("MyPin", "set_low", None, None)
    /\ UNCHANGED <<ctx, lastFwd, lastRec>>

MyPinToggle ==
    /\ CanCall /\ Owned
    /\ pin' = Some(MyPin_toggle(pin[1]))
    /\ cached' = cached
    /\ Logged("MyPin", "toggle", None, None)
    /\ UNCHANGED <<ctx, lastFwd, lastRec>>

MyPinIsSetHigh ==
    /\ CanCall /\ Owned
    /\ UNCHANGED <<pin, cached>>
    /\ Logged("MyPin", "is_set_high", None, Some(MyPin_is_set_high(pin[1])))
    /\ UNCHANGED <<ctx, lastFwd, lastRec>>

MyPinIsSetLow ==
    /\ CanCall /\ Owned
    /\ UNCHANGED <<pin, cached>>
    /\ Logged("MyPin", "is_set_low", None, Some(MyPin_is_set_low(pin[1])))
    /\ UNCHANGED <<ctx, lastFwd, lastRec>>

Next ==
    \/ \E state \in BOOLEAN : New(state)
    \/ IntoInner
    \/ SetHigh
    \/ SetLow
    \/ Toggle
    \/ IsSetHigh
    \/ IsSetLow
    \/ MyPinSetHigh
    \/ MyPinSetLow
    \/ MyPinToggle
    \/ MyPinIsSetHigh
    \/ MyPinIsSetLow

Spec == Init /\ [][Next]_vars

----------------------------------------------------------------------------
(* SpecSteps: two execution contexts run calls on one wrapper, statement   *)
(* by statement.  ctx[c] holds the position of context c in its call       *)
(* (pc, the method called, the set method it is in) and, for the call in   *)
(* progress, what it has done so far: the results it read from             *)
(* is_set_low, the calls it made on the inner pin, the number of writes    *)
(* it made to the cache, and the cached level when it was called.          *)

\* The branch toggle takes: the set method it calls.
Cached_toggle_branch(self) ==
    toggle(is_set_low(self), "set_high", "set_low")

InitSteps ==
    /\ pin = None
    /\ cached \in {Some(new(MyPin(s), state)) : s \in BOOLEAN, state \in BOOLEAN}
    /\ log = <<>>
    /\ ctx = [c \in Ctxs |-> Idle]
    /\ lastFwd = 0
    /\ lastRec = 0

Inner == cached[1].pin

\* Calls started: those that reached the inner pin and those about to.
Started ==
    Len(Inner.calls) + Cardinality({c \in Ctxs : ctx[c].pc \in {"toggle", "set"}})

\* The calls the inner pin received in this step.
Received == SubSeq(Inner.calls', Len(Inner.calls) + 1, Len(Inner.calls'))

\* Context c enters set_high, set_low or toggle.
Call(c, op) ==
    /\ ctx[c].pc = "idle"
    /\ Started < MaxCalls
    /\ ctx' = [ctx EXCEPT ![c] =
                 [pc |-> IF op = "toggle" THEN "toggle" ELSE "set",
                  op |-> op,
                  set |-> IF op = "toggle" THEN "none" ELSE op,
                  reads |-> <<>>, fwd |-> <<>>, recs |-> 0,
                  pre |-> Some(cached[1].state)]]
    /\ UNCHANGED <<pin, cached, log, lastFwd, lastRec>>

\* toggle: `if self.is_set_low()` and the call of the branch taken.
ToggleRead(c) ==
    /\ ctx[c].pc = "toggle"
    /\ ctx' = [ctx EXCEPT ![c].pc = "set",
                          ![c].set = Cached_toggle_branch(cached[1]),
                          ![c].reads = Append(@, is_set_low(cached[1]))]
    /\ UNCHANGED <<pin, cached, log, lastFwd, lastRec>>

\* set_high: `self.pin.set_high();`
ForwardHigh(c) ==
    /\ ctx[c].pc = "set" /\ ctx[c].set = "set_high"
    /\ cached' = Some(set_high_forward(cached[1]))
    /\ ctx' = [ctx EXCEPT ![c].pc = "forwarded", ![c].fwd = @ \o Received]
    /\ lastFwd' = c
    /\ UNCHANGED <<pin, log, lastRec>>

\* set_high: `self.state = true;`
RecordHigh(c) ==
    /\ ctx[c].pc = "forwarded" /\ ctx[c].set = "set_high"
    /\ cached' = Some(set_high_record(cached[1]))
    /\ ctx' = [ctx EXCEPT ![c].pc = "done", ![c].recs = @ + 1]
    /\ lastRec' = c
    /\ UNCHANGED <<pin, log, lastFwd>>

\* set_low: `self.pin.set_low();`
ForwardLow(c) ==
    /\ ctx[c].pc = "set" /\ ctx[c].set = "set_low"
    /\ cached' = Some(set_low_forward(cached[1]))
    /\ ctx' = [ctx EXCEPT ![c].pc = "forwarded", ![c].fwd = @ \o Received]
    /\ lastFwd' = c
    /\ UNCHANGED <<pin, log, lastRec>>

\* set_low: `self.state = false;`
RecordLow(c) ==
    /\ ctx[c].pc = "forwarded" /\ ctx[c].set = "set_low"
    /\ cached' = Some(set_low_record(cached[1]))
    /\ ctx' = [ctx EXCEPT ![c].pc = "done", ![c].recs = @ + 1]
    /\ lastRec' = c
    /\ UNCHANGED <<pin, log, lastFwd>>

\* The call of context c returns.
Return(c) ==
    /\ ctx[c].pc = "done"
    /\ ctx' = [ctx EXCEPT ![c] = Idle]
    /\ UNCHANGED <<pin, cached, log, lastFwd, lastRec>>

NextSteps ==
    \E c \in Ctxs :
        \/ \E op \in {"set_high", "set_low", "toggle"} : Call(c, op)
        \/ ToggleRead(c)
        \/ ForwardHigh(c)
        \/ RecordHigh(c)
        \/ ForwardLow(c)
        \/ RecordLow(c)
        \/ Return(c)

SpecSteps == InitSteps /\ [][NextSteps]_vars

----------------------------------------------------------------------------
(* Reading the log of Spec.                                                *)

Entries == 1 .. Len(log)
SetOps == {"set_high", "set_low"}
MutatingOps == {"set_high", "set_low", "toggle"}
ReadOps == {"is_set_high", "is_set_low"}

OnCached(i) == log[i].obj = "CachedOutputPin"
OnMyPin(i) == log[i].obj = "MyPin"

\* The wrapper before and after call i (a call on a live wrapper).
WBefore(i) == log[i].pre.cached[1]
WAfter(i) == log[i].post.cached[1]

\* What is_set_high() of the object of call i reports in a snapshot.
Commanded(i, snap) ==
    IF OnMyPin(i) THEN MyPin_is_set_high(snap.pin[1])
    ELSE is_set_high(snap.cached[1])
CommandedLow(i, snap) ==
    IF OnMyPin(i) THEN MyPin_is_set_low(snap.pin[1])
    ELSE is_set_low(snap.cached[1])

\* Calls k .. i were all made on the wrapper that call k worked on.
SameWrapper(k, i) ==
    \A m \in k .. i : OnCached(m) /\ (m > k => log[m].op # "new")

\* A set operation has completed on the wrapper that is live after call i.
SetSinceNew(i) ==
    \E k \in 1 .. i : log[k].op \in MutatingOps /\ SameWrapper(k, i)

\* The `new` that built the wrapper call i works on.
BuiltAt(k, i) == k < i /\ log[k].op = "new" /\ SameWrapper(k, i)

Last(seq) == seq[Len(seq)]
Suffix(seq, n) == SubSeq(seq, n + 1, Len(seq))

----------------------------------------------------------------------------
\* C1: after each set_high()/set_low() on a CachedOutputPin, is_set_high()
\* is true exactly when the call was set_high() and is_set_low() is its
\* negation, whatever the initial level and the earlier calls were.
C1_SetDecidesRead ==
    \A i \in Entries :
        OnCached(i) /\ log[i].op \in SetOps =>
            LET high == log[i].op = "set_high" IN
            /\ is_set_high(WAfter(i)) = high
            /\ is_set_low(WAfter(i)) = ~high
            /\ i < Len(log) /\ log[i + 1].op = "is_set_high"
                   => log[i + 1].ret = Some(high)
            /\ i < Len(log) /\ log[i + 1].op = "is_set_low"
                   => log[i + 1].ret = Some(~high)

\* A wrapper built High, set high, then set low, reads back not-high.
C1_Witness ==
    \E i \in Entries :
        /\ i + 3 <= Len(log)
        /\ log[i].op = "new" /\ log[i].arg = Some(TRUE)
        /\ log[i + 1].op = "set_high" /\ OnCached(i + 1)
        /\ log[i + 2].op = "set_low" /\ OnCached(i + 2)
        /\ log[i + 3].op = "is_set_high" /\ log[i + 3].ret = Some(FALSE)

\* C2: in every state of a live CachedOutputPin exactly one of
\* is_set_high() and is_set_low() is true, and two reads made one after the
\* other return opposite values.
C2_ExactlyOneLevel ==
    /\ Wrapped => is_set_high(cached[1]) = ~is_set_low(cached[1])
    /\ \A i \in Entries :
           /\ OnCached(i) /\ log[i].op # "into_inner"
                  => is_set_high(WAfter(i)) # is_set_low(WAfter(i))
           /\ i < Len(log) /\ OnCached(i) /\ OnCached(i + 1)
              /\ log[i].op \in ReadOps /\ log[i + 1].op \in ReadOps
                  => (log[i].ret = log[i + 1].ret) = (log[i].op = log[i + 1].op)

\* Built Low, toggled, then both reads: high is true, low is false.
C2_Witness ==
    \E i \in Entries :
        /\ i + 3 <= Len(log)
        /\ log[i].op = "new" /\ log[i].arg = Some(FALSE)
        /\ log[i + 1].op = "toggle" /\ OnCached(i + 1)
        /\ log[i + 2].op = "is_set_high" /\ log[i + 2].ret = Some(TRUE)
        /\ log[i + 3].op = "is_set_low" /\ log[i + 3].ret = Some(FALSE)

\* C3: for MyPin and for CachedOutputPin, one toggle() from Low makes
\* is_set_high() true, one toggle() from High makes is_set_low() true, and
\* two toggle() calls in a row restore the level there was before them.
C3_ToggleFlips ==
    \A i \in Entries :
        log[i].op = "toggle" =>
            /\ CommandedLow(i, log[i].pre) => Commanded(i, log[i].post)
            /\ Commanded(i, log[i].pre) => CommandedLow(i, log[i].post)
            /\ i < Len(log) /\ log[i + 1].op = "toggle"
               /\ log[i + 1].obj = log[i].obj
                   => /\ Commanded(i, log[i + 1].post) = Commanded(i, log[i].pre)
                      /\ CommandedLow(i, log[i + 1].post)
                             = CommandedLow(i, log[i].pre)

\* A double toggle of a MyPin that was Low and of a wrapper that was High.
C3_Witness ==
    /\ \E i \in Entries :
           /\ i < Len(log)
           /\ OnMyPin(i) /\ log[i].op = "toggle"
           /\ OnMyPin(i + 1) /\ log[i + 1].op = "toggle"
           /\ CommandedLow(i, log[i].pre)
    /\ \E i \in Entries :
           /\ i < Len(log)
           /\ OnCached(i) /\ log[i].op = "toggle"
           /\ OnCached(i + 1) /\ log[i + 1].op = "toggle"
           /\ Commanded(i, log[i].pre)

\* C4: CachedOutputPin::new(pin, level) sets the cache to `level` for both
\* values (is_set_high() = level, is_set_low() = ~level) and moves the pin
\* in as it is: no set call reaches the pin.
C4_NewSetsCacheOnly ==
    \A i \in Entries :
        log[i].op = "new" =>
            LET level == log[i].arg[1] IN
            /\ WAfter(i).state = level
            /\ is_set_high(WAfter(i)) = level
            /\ is_set_low(WAfter(i)) = ~level
            /\ WAfter(i).pin = log[i].pre.pin[1]
            /\ log[i].post.pin = None
            /\ i < Len(log) /\ log[i + 1].op = "is_set_high"
                   => log[i + 1].ret = Some(level)
            /\ i < Len(log) /\ log[i + 1].op = "is_set_low"
                   => log[i + 1].ret = Some(~level)

\* Scenario A on a pin that is in fact High: built with level Low,
\* is_set_low() returns true.
C4_Witness ==
    \E i \in Entries :
        /\ i < Len(log)
        /\ log[i].op = "new" /\ log[i].arg = Some(FALSE)
        /\ log[i].pre.pin[1].state = TRUE
        /\ log[i + 1].op = "is_set_low" /\ log[i + 1].ret = Some(TRUE)

\* C5: is_set_high() and is_set_low() of a CachedOutputPin change nothing:
\* the cache, the inner pin's level and the calls the inner pin has
\* received are the same after the read as before it.
C5_ReadsArePure ==
    \A i \in Entries :
        OnCached(i) /\ log[i].op \in ReadOps =>
            /\ WAfter(i).state = WBefore(i).state
            /\ WAfter(i).pin.state = WBefore(i).pin.state
            /\ WAfter(i).pin.calls = WBefore(i).pin.calls
            /\ log[i].post = log[i].pre

\* Three reads in a row on a wrapper whose cache differs from its pin.
C5_Witness ==
    \E i \in Entries :
        /\ i + 2 <= Len(log)
        /\ \A m \in i .. i + 2 : OnCached(m) /\ log[m].op \in ReadOps
        /\ log[i].op # log[i + 1].op
        /\ WBefore(i).state # WBefore(i).pin.state

\* C6: into_inner() hands back the wrapper's pin as it is, with no set call
\* of its own.  The pin handed back differs from the pin given to new() by
\* exactly the set calls forwarded in between: none, hence the same pin,
\* when no set operation was called; otherwise its level is that of the
\* last forwarded call.
C6_IntoInnerReturnsPin ==
    \A j \in Entries :
        log[j].op = "into_inner" =>
            /\ log[j].post.pin = Some(WBefore(j).pin)
            /\ log[j].post.cached = None
            /\ \A i \in Entries :
                   BuiltAt(i, j) =>
                       LET given == log[i].pre.pin[1]
                           back == log[j].post.pin[1]
                           sets == {m \in i .. j : log[m].op \in MutatingOps}
                           added == Suffix(back.calls, Len(given.calls))
                       IN  /\ Len(added) = Cardinality(sets)
                           /\ SubSeq(back.calls, 1, Len(given.calls)) = given.calls
                           /\ sets = {} => back = given
                           /\ sets # {} =>
                                  back.state = (Last(added) = "set_high")

\* new(pin, High) on a Low pin, then into_inner() at once: the pin is Low.
C6_Witness ==
    \E i \in Entries :
        /\ i < Len(log)
        /\ log[i].op = "new" /\ log[i].arg = Some(TRUE)
        /\ log[i].pre.pin[1].state = FALSE
        /\ log[i + 1].op = "into_inner"
        /\ pin = log[i].pre.pin

\* C7: after set_high(), set_low() or toggle() on a CachedOutputPin the
\* cached level is the level last commanded on the inner pin; the cache and
\* the pin's level differ only while no set operation has been made on the
\* wrapper since new().
C7_CacheMirrorsLastWrite ==
    \A i \in Entries :
        /\ OnCached(i) /\ log[i].op \in MutatingOps =>
               /\ WAfter(i).pin.calls # <<>>
               /\ WAfter(i).state = (Last(WAfter(i).pin.calls) = "set_high")
               /\ WAfter(i).state = WAfter(i).pin.state
        /\ OnCached(i) /\ log[i].op # "into_inner"
           /\ WAfter(i).state # WAfter(i).pin.state
               => ~SetSinceNew(i)

\* Built with the wrong level (cache and pin differ), read, then toggled:
\* cache and pin agree.
C7_Witness ==
    \E i \in Entries :
        /\ i + 2 <= Len(log)
        /\ log[i].op = "new" /\ WAfter(i).state # WAfter(i).pin.state
        /\ log[i + 1].op \in ReadOps
        /\ log[i + 2].op = "toggle" /\ OnCached(i + 2)
        /\ WAfter(i + 2).state = WAfter(i + 2).pin.state

\* C10: toggle() on a CachedOutputPin flips the inner pin's level whenever
\* the cached level equals the pin's level when it is called; that is so
\* when new() was given the pin's level or a set operation has completed on
\* the wrapper.
C10_ToggleFlipsPin ==
    \A i \in Entries :
        OnCached(i) /\ log[i].op = "toggle" =>
            /\ WBefore(i).state = WBefore(i).pin.state
                   => WAfter(i).pin.state = ~WBefore(i).pin.state
            /\ (\/ i > 1 /\ SetSinceNew(i - 1)
                \/ \E k \in Entries :
                       /\ BuiltAt(k, i)
                       /\ log[k].arg = Some(log[k].pre.pin[1].state))
                   => WAfter(i).pin.state = ~WBefore(i).pin.state

\* Built with the wrong level, then set, then toggled twice: each toggle
\* flips the pin.
C10_Witness ==
    \E i \in Entries :
        /\ i + 3 <= Len(log)
        /\ log[i].op = "new" /\ log[i].arg # Some(log[i].pre.pin[1].state)
        /\ log[i + 1].op \in SetOps /\ OnCached(i + 1)
        /\ log[i + 2].op = "toggle" /\ OnCached(i + 2)
        /\ log[i + 3].op = "toggle" /\ OnCached(i + 3)
        /\ WAfter(i + 2).pin.state # WAfter(i + 1).pin.state
        /\ WAfter(i + 3).pin.state = WAfter(i + 1).pin.state

----------------------------------------------------------------------------
\* C8: set_high()/set_low() are two steps, so with two contexts calling
\* them on one wrapper the cache can differ from the inner pin's level
\* after both calls have completed (C8_Witness).  Interleaving is the only
\* cause: when no call is in progress and the cache differs from the pin's
\* level, the call that last reached the pin and the call that last wrote
\* the cache belong to different contexts.
C8_DivergenceOnlyByInterleaving ==
    (\A c \in Ctxs : ctx[c].pc \in {"idle", "done"}) /\ lastRec # 0 =>
        (cached[1].state # Inner.state => lastFwd # lastRec)

\* One context called set_high(), the other set_low(), both calls are
\* complete, and the cached level is not the level the pin was left at.
C8_Witness ==
    /\ \A c \in Ctxs : ctx[c].pc = "done"
    /\ {ctx[c].op : c \in Ctxs} = {"set_high", "set_low"}
    /\ cached[1].state # Inner.state
    /\ cached[1].state # (Last(Inner.calls) = "set_high")

\* C9: every mutating operation on a CachedOutputPin forwards exactly one
\* set call to the inner pin, before it writes the cache: set_high() one
\* set_high(), set_low() one set_low(), toggle() reads is_set_low() once and
\* forwards set_high() if it read Low and set_low() otherwise; the forward
\* is made also when the cache already holds the requested level.
C9_OneForwardThenRecord ==
    \A c \in Ctxs :
        LET x == ctx[c] IN
        /\ x.op \in SetOps => x.set = x.op /\ x.reads = <<>>
        /\ x.op = "toggle" /\ x.pc = "toggle" => x.reads = <<>>
        /\ x.op = "toggle" /\ x.pc # "toggle" =>
               /\ Len(x.reads) = 1
               /\ x.set = IF x.reads[1] THEN "set_high" ELSE "set_low"
        /\ x.pc \in {"idle", "toggle", "set"} => x.fwd = <<>> /\ x.recs = 0
        /\ x.pc = "forwarded" => x.fwd = <<x.set>> /\ x.recs = 0
        /\ x.pc = "done" => x.fwd = <<x.set>> /\ x.recs = 1

\* A completed set_high() on a wrapper whose cache was already High, and a
\* completed toggle() that read Low: each forwarded one set_high().
C9_Witness ==
    /\ ctx[1].pc = "done" /\ ctx[1].op = "set_high"
    /\ ctx[1].pre = Some(TRUE) /\ ctx[1].fwd = <<"set_high">>
    /\ ctx[2].pc = "done" /\ ctx[2].op = "toggle"
    /\ ctx[2].reads = <<TRUE>> /\ ctx[2].fwd = <<"set_high">>

====
